---- MODULE Spec2Model ----
(***************************************************************************)
(* The erc20 contract of src/lib.rs: the storage (total_supply, balances,  *)
(* allowances), the constructor and the three mutating messages transfer,  *)
(* approve and transfer_from, with the events each of them emits.          *)
(*                                                                         *)
(* Each message is one action.  The messages are modelled as the Rust      *)
(* functions are written: a Mapping::insert writes the storage cell at     *)
(* once, and a later `return Err(..)` of the same message undoes nothing.  *)
(***************************************************************************)
EXTENDS Integers, Sequences, FiniteSets, TLC

\* ------------------------------------------------------------------ bounds
\* The largest value of the Balance type (2^128 - 1 in the source, scaled down).
MaxBalance == 2
\* The largest value argument of a message.
MaxValue == 1
\* Number of messages sent to the contract after construction.
MaxCalls == 3

\* Balance arithmetic is arithmetic modulo Modulus.
Modulus == MaxBalance + 1
\* Balance: the unsigned integers of the width.
Balance == 0 .. (Modulus - 1)
\* AccountId: the default accounts the unit test uses.
AccountId == {"alice", "bob", "charlie"}
\* The caller of the constructor: alice owns the tokens on instantiation.
Creator == "alice"
\* The supply the contract is constructed with: one supply, as in the unit
\* test, here the largest the Balance type holds.
Supplies == {MaxBalance}
\* The value arguments of the messages.
Values == 0 .. MaxValue

\* ------------------------------------------------------- storage Mappings
\* Mapping::default(): no cell is written.
EmptyMapping == [k \in {} |-> 0]

\* Mapping::get(key).unwrap_or_default(): the stored value or 0.
GetOrDefault(m, key) == IF key \in DOMAIN m THEN m[key] ELSE 0

\* An insert that keeps no cell for the value 0.
InsertSparse(m, key, value) ==
    IF value = 0
    THEN [k \in (DOMAIN m) \ {key} |-> m[k]]
    ELSE [k \in (DOMAIN m) \cup {key} |-> IF k = key THEN value ELSE m[k]]

\* Mapping::insert(key, &value): writes the cell, whatever the value.
Insert(m, key, value) ==
    [k \in (DOMAIN m) \cup {key} |-> IF k = key THEN value ELSE m[k]]

\* Option<AccountId> of the Transfer event.
None == << >>
Some(a) == << a >>

\* Transfer emitted without its sender: from: None, as the constructor's.
TransferEventNoSender(from, to, value) ==
    [type |-> "Transfer", from |-> None, to |-> Some(to), value |-> value]

TransferEvent(from, to, value) ==
    [type |-> "Transfer", from |-> from, to |-> Some(to), value |-> value]

\* approve emitting its Approval with owner and spender exchanged.
ApprovalEventSwapped(from, to, value) ==
    [type |-> "Approval", from |-> Some(to), to |-> Some(from), value |-> value]

ApprovalEvent(from, to, value) ==
    [type |-> "Approval", from |-> Some(from), to |-> Some(to), value |-> value]

\* ------------------------------------------------------------------ state
VARIABLES
    total_supply,   \* Erc20.total_supply
    balances,       \* Erc20.balances   : AccountId -> Balance, sparse
    allowances,     \* Erc20.allowances : (owner, spender) -> Balance, sparse
    emitted,        \* the events the last message (or the constructor) emitted
    last,           \* the last message: its name, caller, arguments and result
    pre,            \* the storage as it was when the last message started
    constructed,    \* the caller and the argument of the constructor
    genesis,        \* number of Transfer events with from = None emitted so far
    calls,          \* number of messages handled since construction
    spend,          \* per (owner, spender): the value of the owner's last
                    \* successful approve, the value the spender's successful
                    \* transfer_from calls moved since, and whether every such
                    \* call since succeeded (recorded under SpecSpend only)
    pc              \* "returned": the result of the last message is with its
                    \* caller; "idle": the contract waits for a message

vars == << total_supply, balances, allowances, emitted, last, pre,
           constructed, genesis, calls, spend, pc >>

\* The number of Transfer events with from = None among `events`.
NoneCount(events) ==
    Cardinality({i \in 1 .. Len(events) :
                    events[i].type = "Transfer" /\ events[i].from = None})

\* ---------------------------------------------------------------- queries
balance_of_impl(bals, owner) == GetOrDefault(bals, owner)

allowance_impl(alls, owner, spender) == GetOrDefault(alls, << owner, spender >>)

balance_of(owner) == balance_of_impl(balances, owner)

allowance(owner, spender) == allowance_impl(allowances, owner, spender)

\* ------------------------------------------------------------ constructor
\* new() without its balances.insert: nothing is credited to the caller.
NewBalancesNotCredited(caller, supply) == EmptyMapping

\* The balances mapping new() builds: the whole supply at the caller.
NewBalances(caller, supply) == Insert(EmptyMapping, caller, supply)

\* new() leaving total_supply at its Default.
NewTotalSupplyDefault(supply) == 0

\* The total_supply field new() builds: its argument.
NewTotalSupply(supply) == supply

\* The storage a derived Default gives: what new() starts from.
DefaultStorage ==
    [total_supply |-> 0, balances |-> EmptyMapping, allowances |-> EmptyMapping]

Init ==
    \E caller \in {Creator}, supply \in Supplies :
        /\ total_supply = NewTotalSupply(supply)
        /\ constructed = [caller |-> caller, supply |-> supply]
        /\ balances = NewBalances(caller, supply)
        /\ allowances = EmptyMapping
        /\ emitted = << [type |-> "Transfer", from |-> None,
                         to |-> Some(caller), value |-> supply] >>
        /\ last = [op |-> "new", caller |-> caller, from |-> caller,
                   to |-> caller, value |-> supply, result |-> "Ok"]
        /\ genesis = NoneCount(emitted)
        /\ pre = DefaultStorage
        /\ calls = 0
        /\ spend = EmptyMapping
        /\ pc = "returned"

\* ------------------------------------------------- the shared move of value
\* from_balance - value, evaluated only when from_balance >= value.
Debit(from_balance, value) == from_balance - value

\* to_balance + value, in the width of Balance.  The sum of two Balances may
\* not fit: a build with overflow checks panics there, a build without them
\* wraps.  Both outcomes are kept: the set of <<outcome, stored value>>.
Credit(to_balance, value) ==
    IF to_balance + value < Modulus
    THEN { [panic |-> FALSE, sum |-> to_balance + value] }
    ELSE { [panic |-> TRUE, sum |-> 0],
           [panic |-> FALSE, sum |-> (to_balance + value) % Modulus] }

\* transfer_from_to with its balance check written from_balance <= value: a
\* value equal to the balance, a zero value at a zero balance too, is rejected.
transfer_from_toStrict(bals, from, to, value) ==
    LET from_balance == balance_of_impl(bals, from) IN
    IF from_balance <= value
    THEN { [result |-> "InsufficientBalance", balances |-> bals, events |-> << >>] }
    ELSE LET to_balance == balance_of_impl(bals, to)
             debited == Insert(bals, from, Debit(from_balance, value))
         IN { IF c.panic
              THEN [result |-> "Panic", balances |-> debited, events |-> << >>]
              ELSE [result |-> "Ok",
                    balances |-> Insert(debited, to, c.sum),
                    events |-> << TransferEvent(Some(from), to, value) >>]
              : c \in Credit(to_balance, value) }

\* transfer_from_to reporting a short balance with the other Error variant.
transfer_from_toWrongError(bals, from, to, value) ==
    LET from_balance == balance_of_impl(bals, from) IN
    IF from_balance < value
    THEN { [result |-> "InsufficientAllowance", balances |-> bals, events |-> << >>] }
    ELSE LET to_balance == balance_of_impl(bals, to)
             debited == Insert(bals, from, Debit(from_balance, value))
         IN { IF c.panic
              THEN [result |-> "Panic", balances |-> debited, events |-> << >>]
              ELSE [result |-> "Ok",
                    balances |-> Insert(debited, to, c.sum),
                    events |-> << TransferEvent(Some(from), to, value) >>]
              : c \in Credit(to_balance, value) }

\* transfer_from_to(from, to, value) on the balances `bals`: the outcomes,
\* each the result, the balances left and the events emitted.
transfer_from_to(bals, from, to, value) ==
    LET from_balance == balance_of_impl(bals, from) IN
    IF from_balance < value
    THEN { [result |-> "InsufficientBalance", balances |-> bals, events |-> << >>] }
    ELSE LET to_balance == balance_of_impl(bals, to)
             debited == Insert(bals, from, Debit(from_balance, value))
         IN { IF c.panic
              THEN [result |-> "Panic", balances |-> debited, events |-> << >>]
              ELSE [result |-> "Ok",
                    balances |-> Insert(debited, to, c.sum),
                    events |-> << TransferEvent(Some(from), to, value) >>]
              : c \in Credit(to_balance, value) }

\* --------------------------------------------------------------- messages
Snapshot ==
    [total_supply |-> total_supply, balances |-> balances, allowances |-> allowances]

transfer(caller, to, value) ==
    /\ pc = "idle"
    /\ \E out \in transfer_from_to(balances, caller, to, value) :
        /\ balances' = out.balances
        /\ emitted' = out.events
        /\ last' = [op |-> "transfer", caller |-> caller, from |-> caller,
                    to |-> to, value |-> value, result |-> out.result]
    /\ genesis' = genesis + NoneCount(emitted')
    /\ pre' = Snapshot
    /\ calls' = calls + 1
    /\ pc' = "returned"
    /\ UNCHANGED << total_supply, allowances, constructed >>

\* transfer_from writing the allowance back as it read it.
RemainingNotConsumed(allowance_, value) == allowance_

\* transfer_from adding the value to the allowance.
RemainingIncreased(allowance_, value) == allowance_ + value

\* The allowance transfer_from leaves to the caller.
Remaining(allowance_, value) == allowance_ - value

transfer_from(caller, from, to, value) ==
    /\ pc = "idle"
    /\ LET allowance_ == allowance_impl(allowances, from, caller) IN
       IF allowance_ < value
       THEN /\ last' = [op |-> "transfer_from", caller |-> caller, from |-> from,
                        to |-> to, value |-> value,
                        result |-> "InsufficientAllowance"]
            /\ emitted' = << >>
            /\ UNCHANGED << balances, allowances >>
       ELSE /\ allowances' = Insert(allowances, << from, caller >>,
                                    Remaining(allowance_, value))
            /\ \E out \in transfer_from_to(balances, from, to, value) :
                /\ balances' = out.balances
                /\ emitted' = out.events
                /\ last' = [op |-> "transfer_from", caller |-> caller,
                            from |-> from, to |-> to, value |-> value,
                            result |-> out.result]
    /\ genesis' = genesis + NoneCount(emitted')
    /\ pre' = Snapshot
    /\ calls' = calls + 1
    /\ pc' = "returned"
    /\ UNCHANGED << total_supply, constructed >>

\* approve adding the value to the allowance instead of overwriting it.
ApprovedAdditive(alls, owner, spender, value) ==
    Insert(alls, << owner, spender >>,
           GetOrDefault(alls, << owner, spender >>) + value)

\* The allowances approve leaves when its check passes.
Approved(alls, owner, spender, value) == Insert(alls, << owner, spender >>, value)

approve(caller, spender, value) ==
    /\ pc = "idle"
    /\ LET owner == caller
           owner_balance == balance_of_impl(balances, owner)
       IN IF owner_balance < value
          THEN /\ last' = [op |-> "approve", caller |-> caller, from |-> owner,
                           to |-> spender, value |-> value,
                           result |-> "InsufficientBalance"]
               /\ emitted' = << >>
               /\ UNCHANGED allowances
          ELSE /\ allowances' = Approved(allowances, owner, spender, value)
               /\ emitted' = << ApprovalEvent(owner, spender, value) >>
               /\ last' = [op |-> "approve", caller |-> caller, from |-> owner,
                           to |-> spender, value |-> value, result |-> "Ok"]
    /\ genesis' = genesis + NoneCount(emitted')
    /\ pre' = Snapshot
    /\ calls' = calls + 1
    /\ pc' = "returned"
    /\ UNCHANGED << total_supply, balances, constructed >>

\* No message is being handled and no result is outstanding.
NoCall ==
    [op |-> "none", caller |-> Creator, from |-> Creator, to |-> Creator,
     value |-> 0, result |-> "Ok"]

\* The call ends: its result and its events are with the caller and the host,
\* and the contract waits for the next message (Next lets it wait only while a
\* further message is modelled).
Return ==
    /\ pc = "returned"
    /\ pc' = "idle"
    /\ last' = NoCall
    /\ emitted' = << >>
    /\ pre' = DefaultStorage
    /\ UNCHANGED << total_supply, balances, allowances, constructed, genesis,
                    calls >>

Next ==
    \/ calls < MaxCalls /\ Return /\ UNCHANGED spend
    \/ /\ calls < MaxCalls
       /\ \E caller \in AccountId, to \in AccountId, value \in Values :
             transfer(caller, to, value) /\ UNCHANGED spend
    \/ /\ calls < MaxCalls
       /\ \E caller \in AccountId, spender \in AccountId, value \in Values :
             approve(caller, spender, value) /\ UNCHANGED spend
    \/ /\ calls < MaxCalls
       /\ \E caller \in AccountId, from \in AccountId, to \in AccountId,
             value \in Values :
             transfer_from(caller, from, to, value) /\ UNCHANGED spend

\* The contract, the spending record left alone.
Spec == Init /\ [][Next]_vars

\* Number of messages of the longer runs.
DeepCalls == MaxCalls + 1

\* The same messages, one more of them in a run.
NextDeep ==
    \/ calls < DeepCalls /\ Return /\ UNCHANGED spend
    \/ /\ calls < DeepCalls
       /\ \E caller \in AccountId, to \in AccountId, value \in Values :
             transfer(caller, to, value) /\ UNCHANGED spend
    \/ /\ calls < DeepCalls
       /\ \E caller \in AccountId, spender \in AccountId, value \in Values :
             approve(caller, spender, value) /\ UNCHANGED spend
    \/ /\ calls < DeepCalls
       /\ \E caller \in AccountId, from \in AccountId, to \in AccountId,
             value \in Values :
             transfer_from(caller, from, to, value) /\ UNCHANGED spend

\* The contract in the longer runs.
SpecDeep == Init /\ [][NextDeep]_vars

\* The spending record of a pair no approve or transfer_from has touched.
NoSpend == [approved |-> 0, spent |-> 0, succeeded |-> TRUE]

\* The spending record of the pair, NoSpend when none is kept.
SpendOf(sp, pair) == IF pair \in DOMAIN sp THEN sp[pair] ELSE NoSpend

\* The spending record after the message `call` (its name, caller, arguments
\* and result): a successful approve starts the pair's record anew, a
\* transfer_from adds its value when it succeeded and is noted when it did not.
Track(sp, call) ==
    IF call.op = "approve" /\ call.result = "Ok"
    THEN Insert(sp, << call.caller, call.to >>,
                [approved |-> call.value, spent |-> 0, succeeded |-> TRUE])
    ELSE IF call.op = "transfer_from"
    THEN LET r == SpendOf(sp, << call.from, call.caller >>) IN
         IF call.result = "Ok"
         THEN Insert(sp, << call.from, call.caller >>,
                     [r EXCEPT !.spent = @ + call.value])
         ELSE Insert(sp, << call.from, call.caller >>,
                     [r EXCEPT !.succeeded = FALSE])
    ELSE sp

\* The same messages, each followed by the update of the spending record.
NextSpend ==
    \/ calls < MaxCalls /\ Return /\ UNCHANGED spend
    \/ /\ calls < MaxCalls
       /\ \E caller \in AccountId, to \in AccountId, value \in Values :
             transfer(caller, to, value) /\ spend' = Track(spend, last')
    \/ /\ calls < MaxCalls
       /\ \E caller \in AccountId, spender \in AccountId, value \in Values :
             approve(caller, spender, value) /\ spend' = Track(spend, last')
    \/ /\ calls < MaxCalls
       /\ \E caller \in AccountId, from \in AccountId, to \in AccountId,
             value \in Values :
             transfer_from(caller, from, to, value)
             /\ spend' = Track(spend, last')

\* The contract with the spending record kept.
SpecSpend == Init /\ [][NextSpend]_vars

\* ------------------------------------------------------------- properties
\* The sum of the stored balances.
RECURSIVE SumOver(_, _)
SumOver(bals, keys) ==
    IF keys = {} THEN 0
    ELSE LET k == CHOOSE x \in keys : TRUE
         IN bals[k] + SumOver(bals, keys \ {k})

SumBalances(bals) == SumOver(bals, DOMAIN bals)

\* The queries on the storage the last message started from.
pre_balance_of(owner) == balance_of_impl(pre.balances, owner)
pre_allowance(owner, spender) == allowance_impl(pre.allowances, owner, spender)

IsErr == last.result \in {"InsufficientBalance", "InsufficientAllowance"}

\* C1: conservation. In every reachable state the sum of all balances equals
\* total_supply.
C1_Conservation == SumBalances(balances) = total_supply

\* C2: atomicity. A message that returned Err left the balances mapping and
\* the allowances mapping exactly as they were when it started.
C2_Atomicity ==
    IsErr => /\ balances = pre.balances
             /\ allowances = pre.allowances

\* C3: a transfer_from with a sufficient allowance and an insufficient
\* balance returns Err(InsufficientBalance) and leaves allowance(from, caller)
\* as it was before the call.
C3_AllowanceRolledBack ==
    ( /\ last.op = "transfer_from"
      /\ pre_allowance(last.from, last.caller) >= last.value
      /\ pre_balance_of(last.from) < last.value )
    => /\ last.result = "InsufficientBalance"
       /\ allowance(last.from, last.caller)
            = pre_allowance(last.from, last.caller)

\* C4: the outcome of a message is decided by its preconditions alone.
\* transfer and approve return Ok iff the caller's balance covers the value,
\* else InsufficientBalance; transfer_from returns InsufficientAllowance iff
\* the allowance is short, else InsufficientBalance iff the balance of from is
\* short, else Ok.
C4_OutcomeByPreconditions ==
    /\ last.op \in {"transfer", "approve"} =>
          last.result = IF pre_balance_of(last.caller) >= last.value
                        THEN "Ok" ELSE "InsufficientBalance"
    /\ last.op = "transfer_from" =>
          last.result = IF pre_allowance(last.from, last.caller) < last.value
                        THEN "InsufficientAllowance"
                        ELSE IF pre_balance_of(last.from) < last.value
                             THEN "InsufficientBalance" ELSE "Ok"

\* The balances after the last message are those before it with `value`
\* moved from `from` to `to`, every other balance as it was.
Moved(from, to, value) ==
    /\ balance_of(from) = pre_balance_of(from) - value
    /\ balance_of(to) = pre_balance_of(to) + value
    /\ \A a \in AccountId \ {from, to} : balance_of(a) = pre_balance_of(a)

\* C5: after a successful transfer(to, value) with to # caller the caller's
\* balance is value less, the balance of to is value more, and every other
\* balance is unchanged.
C5_TransferMoves ==
    ( /\ last.op = "transfer"
      /\ last.result = "Ok"
      /\ last.to # last.caller )
    => Moved(last.caller, last.to, last.value)

\* C6: after a successful transfer_from(from, to, value) with from # to the
\* balance of from is value less, the balance of to is value more, and every
\* other balance (the caller's too) is unchanged.
C6_TransferFromMoves ==
    ( /\ last.op = "transfer_from"
      /\ last.result = "Ok"
      /\ last.from # last.to )
    => Moved(last.from, last.to, last.value)

\* C7: allowance consumption. After a successful transfer_from(from, to, v)
\* allowance(from, caller) is v less than before and every other allowance
\* entry is unchanged.
C7_AllowanceConsumed ==
    ( /\ last.op = "transfer_from"
      /\ last.result = "Ok" )
    => /\ allowance(last.from, last.caller)
            = pre_allowance(last.from, last.caller) - last.value
       /\ \A o \in AccountId, s \in AccountId :
            << o, s >> # << last.from, last.caller >>
            => /\ allowance(o, s) = pre_allowance(o, s)
               /\ (<< o, s >> \in DOMAIN allowances)
                    = (<< o, s >> \in DOMAIN pre.allowances)

C7_Witness ==
    /\ last.op = "transfer_from"
    /\ last.result = "Ok"
    /\ last.value > 0
    /\ last.caller # last.from
    /\ \E o \in AccountId, s \in AccountId :
          /\ << o, s >> # << last.from, last.caller >>
          /\ pre_allowance(o, s) > 0

\* C8: after a successful approve(spender, value) allowance(caller, spender)
\* is value, whatever it was before; no balance, no other allowance entry and
\* not total_supply has changed.
C8_ApproveOverwrites ==
    ( /\ last.op = "approve"
      /\ last.result = "Ok" )
    => /\ allowance(last.caller, last.to) = last.value
       /\ << last.caller, last.to >> \in DOMAIN allowances
       /\ balances = pre.balances
       /\ total_supply = pre.total_supply
       /\ \A o \in AccountId, s \in AccountId :
            << o, s >> # << last.caller, last.to >>
            => /\ allowance(o, s) = pre_allowance(o, s)
               /\ (<< o, s >> \in DOMAIN allowances)
                    = (<< o, s >> \in DOMAIN pre.allowances)

C8_Witness ==
    /\ last.op = "approve"
    /\ last.result = "Ok"
    /\ last.value > 0
    /\ pre_allowance(last.caller, last.to) > 0
    /\ allowance(last.caller, last.to) = last.value

\* C9: total_supply is the constructor's argument in every reachable state.
C9_TotalSupplyFixed == total_supply = constructed.supply

C9_Witness ==
    /\ calls = MaxCalls
    /\ last.op = "transfer_from"
    /\ last.result = "Ok"
    /\ last.value > 0
    /\ balances # pre.balances
    /\ total_supply = constructed.supply

\* C10: right after new(initial_supply) by the creator, the creator's balance
\* is initial_supply, every other balance is 0 and every allowance is 0.
C10_AfterNew ==
    last.op = "new"
    => /\ balance_of(last.caller) = last.value
       /\ \A x \in AccountId \ {last.caller} : balance_of(x) = 0
       /\ \A o \in AccountId, s \in AccountId : allowance(o, s) = 0

C10_Witness ==
    /\ last.op = "new"
    /\ calls = 0
    /\ last.value > 0
    /\ balance_of(Creator) = last.value

\* C11: events are emitted exactly once per successful mutation. A successful
\* transfer or transfer_from emits exactly one Transfer{Some(source), to,
\* value} (source the caller of transfer, from of transfer_from) and no
\* Approval; a successful approve emits exactly one Approval{caller, spender,
\* value} and no Transfer; a message that did not succeed emits nothing.
C11_EventsExactlyOnce ==
    /\ (last.op \in {"transfer", "transfer_from"} /\ last.result = "Ok")
         => emitted = << [type |-> "Transfer", from |-> << last.from >>,
                          to |-> << last.to >>, value |-> last.value] >>
    /\ (last.op = "approve" /\ last.result = "Ok")
         => emitted = << [type |-> "Approval", from |-> << last.caller >>,
                          to |-> << last.to >>, value |-> last.value] >>
    /\ (last.op \in {"transfer", "transfer_from", "approve"} /\ last.result # "Ok")
         => emitted = << >>

C11_Witness ==
    /\ last.op = "approve"
    /\ last.result = "Ok"
    /\ last.caller # last.to
    /\ last.value > 0
    /\ Len(emitted) = 1
    /\ emitted[1].type = "Approval"


\* C12: zero amounts are not special-cased. transfer(to, 0), approve(spender,
\* 0) and transfer_from(from, to, 0) return Ok for every caller, whatever its
\* balance; the call leaves every balance as it was and emits its Transfer or
\* Approval with value 0.
C12_ZeroAmounts ==
    (last.op \in {"transfer", "approve", "transfer_from"} /\ last.value = 0)
    => /\ last.result = "Ok"
       /\ \A a \in AccountId : balance_of(a) = pre_balance_of(a)
       /\ Len(emitted) = 1
       /\ emitted[1].value = 0
       /\ emitted[1].type = IF last.op = "approve" THEN "Approval" ELSE "Transfer"

C12_Witness ==
    /\ last.op = "transfer_from"
    /\ last.value = 0
    /\ last.result = "Ok"
    /\ pre_balance_of(last.from) = 0
    /\ pre_balance_of(last.caller) = 0
    /\ last.from # last.to
    /\ Len(emitted) = 1


\* The last message ran the arithmetic of transfer_from_to: it was a transfer,
\* or a transfer_from past its allowance check, and the balance check passed.
RanMove ==
    /\ \/ last.op = "transfer"
       \/ /\ last.op = "transfer_from"
          /\ pre_allowance(last.from, last.caller) >= last.value
    /\ pre_balance_of(last.from) >= last.value

\* C13: no arithmetic fault is reachable. Every stored balance and allowance
\* is a Balance (no subtraction went below 0), to_balance + value never
\* exceeds the largest Balance when it is computed, and a message ends only
\* with Ok, InsufficientBalance or InsufficientAllowance.
C13_NoArithmeticFault ==
    /\ \A a \in DOMAIN balances : balances[a] \in Balance
    /\ \A k \in DOMAIN allowances : allowances[k] \in Balance
    /\ RanMove => pre_balance_of(last.to) + last.value <= MaxBalance
    /\ last.result \in {"Ok", "InsufficientBalance", "InsufficientAllowance"}


\* C14: the genesis sentinel is unique. Of all the events emitted so far
\* exactly one is a Transfer with from = None: the constructor's, with to the
\* creator and value the initial supply; transfer and transfer_from never
\* emit one.
C14_GenesisUnique ==
    /\ genesis = 1
    /\ last.op = "new"
         => emitted = << [type |-> "Transfer", from |-> None,
                          to |-> Some(constructed.caller),
                          value |-> constructed.supply] >>
    /\ last.op # "new" => NoneCount(emitted) = 0

C14_Witness ==
    /\ genesis = 1
    /\ calls = MaxCalls
    /\ last.op = "transfer_from"
    /\ last.result = "Ok"
    /\ Len(emitted) = 1
    /\ emitted[1].from = Some(last.from)


\* C15: a self-transfer is value-neutral. After a successful transfer(to =
\* caller, value) or transfer_from(from, to = from, value) every balance,
\* that account's too, is what it was before the call.
C15_SelfTransferNeutral ==
    ( /\ last.op \in {"transfer", "transfer_from"}
      /\ last.result = "Ok"
      /\ last.from = last.to )
    => \A a \in AccountId : balance_of(a) = pre_balance_of(a)


\* C16: approve checks the owner's balance only when it is called. A state
\* with allowance(O, S) > balance_of(O) is reachable, and a transfer_from(O,
\* to, w) by S with balance_of(O) < w <= allowance(O, S) returns
\* Err(InsufficientBalance), not InsufficientAllowance.
C16_GateAtApprovalOnly ==
    ( /\ last.op = "transfer_from"
      /\ pre_balance_of(last.from) < last.value
      /\ last.value <= pre_allowance(last.from, last.caller) )
    => last.result = "InsufficientBalance"

C16_Witness ==
    /\ last.op = "transfer_from"
    /\ last.caller # last.from
    /\ pre_allowance(last.from, last.caller) > pre_balance_of(last.from)
    /\ pre_balance_of(last.from) < last.value
    /\ last.value <= pre_allowance(last.from, last.caller)
    /\ last.result = "InsufficientBalance"


\* C17: authorization soundness. The balance of an account X is lower after a
\* message only if the message is a transfer called by X, or a
\* transfer_from(from = X, .., value) whose caller held an allowance on X of
\* at least value, the amount debited.
C17_AuthorizedDebitOnly ==
    \A x \in AccountId :
        balance_of(x) < pre_balance_of(x)
        => \/ last.op = "transfer" /\ last.caller = x
           \/ /\ last.op = "transfer_from"
              /\ last.from = x
              /\ pre_allowance(x, last.caller) >= last.value


\* C18: spending bound. For every owner O and spender S the value S's
\* successful transfer_from calls moved out of O since O's last successful
\* approve(S, v) (v = 0 when there is none) never exceeds v, and it is v less
\* the current allowance(O, S) when every transfer_from by S on O since
\* succeeded.
C18_SpendingBound ==
    \A o \in AccountId, s \in AccountId :
        LET r == SpendOf(spend, << o, s >>) IN
        /\ r.spent <= r.approved
        /\ r.succeeded => r.spent = r.approved - allowance(o, s)

C18_Witness ==
    /\ last.op = "transfer_from"
    /\ last.result = "Ok"
    /\ last.value > 0
    /\ last.caller # last.from
    /\ SpendOf(spend, << last.from, last.caller >>).approved > 0
    /\ SpendOf(spend, << last.from, last.caller >>).spent
          = SpendOf(spend, << last.from, last.caller >>).approved
    /\ \E o \in AccountId, s \in AccountId : ~ SpendOf(spend, << o, s >>).succeeded


\* C19: allowance frame. The entry allowance(O, S) changes only in a step
\* that is approve(S, _) called by O or transfer_from(O, _, _) called by S,
\* and in a transfer_from it never increases; transfer changes no allowance
\* entry and approve changes no balance.
C19_AllowanceFrame ==
    pc = "returned" =>
        /\ \A o \in AccountId, s \in AccountId :
              allowance(o, s) # pre_allowance(o, s) =>
                  \/ /\ last.op = "approve"
                     /\ last.caller = o
                     /\ last.to = s
                  \/ /\ last.op = "transfer_from"
                     /\ last.from = o
                     /\ last.caller = s
                     /\ allowance(o, s) < pre_allowance(o, s)
        /\ last.op = "transfer" => allowances = pre.allowances
        /\ last.op = "approve" => balances = pre.balances

C19_Witness ==
    /\ pc = "returned"
    /\ last.op = "transfer_from"
    /\ allowance(last.from, last.caller)
          < pre_allowance(last.from, last.caller)
    /\ balances # pre.balances
    /\ \E o \in AccountId, s \in AccountId :
          /\ << o, s >> # << last.from, last.caller >>
          /\ allowance(o, s) > 0

\* C20, as the specification states it: the balances mapping holds no entry
\* whose stored value is 0.
C20_NoZeroEntries == \A a \in DOMAIN balances : balances[a] # 0

\* C20, amended: an account without a stored entry has balance 0, but a
\* stored entry may hold 0. No message removes an entry, and after a
\* successful transfer or transfer_from both the debited and the credited
\* account have a stored entry, whatever its value.
C20_EntriesKept ==
    /\ \A a \in AccountId : a \notin DOMAIN balances => balance_of(a) = 0
    /\ pc = "returned" =>
          /\ DOMAIN pre.balances \subseteq DOMAIN balances
          /\ (last.op \in {"transfer", "transfer_from"} /\ last.result = "Ok")
                => {last.from, last.to} \subseteq DOMAIN balances

C20_Witness ==
    /\ pc = "returned"
    /\ last.op = "transfer"
    /\ last.result = "Ok"
    /\ last.value = 0
    /\ last.from # last.to
    /\ last.to \in DOMAIN balances
    /\ last.to \notin DOMAIN pre.balances
    /\ balances[last.to] = 0
    /\ \E a \in AccountId : a \notin DOMAIN balances


====
